---- MODULE Spec2Model ----
(***************************************************************************)
(* Model of src/xenakis.py, the Xenakis sieve library: the text parser,    *)
(* residual membership, normalisation, pairwise simplification and the     *)
(* Sieve class with its union / intersection operators.                    *)
(*                                                                         *)
(* Python values are modelled as follows.                                  *)
(*   - a str is a sequence of one-character strings;                       *)
(*   - a residual tuple (modulus, shift, negated) is a 3-tuple;            *)
(*   - a dynamically typed value coming out of the parser is a node        *)
(*     [kind, val] with kind "tuple" (val a residual), "list" (val a       *)
(*     sequence of nodes) or "raise" (val the exception's name);           *)
(*   - list objects that can be shared between Sieves live in a heap       *)
(*     (variable lists) and are referred to by their index.                *)
(***************************************************************************)
EXTENDS Integers, Sequences, FiniteSets, TLC

VARIABLES
    lists,   \* heap of inner list objects (the groups): id -> sequence of residuals
    sieves,  \* the Sieve objects built so far: id -> [residuals: seq of list ids, fmt]
    last,    \* the last Sieve operation evaluated and its outcome
    call     \* the pure function call under evaluation (parser / simplifier)

vars == <<lists, sieves, last, call>>

\* ------------------------------------------------------------------ bounds

MaxMod == 4       \* moduli of generated residuals range up to MaxMod
MaxShift == 1     \* shifts written in generated sieve texts range over 0..MaxShift
MaxTerms == 3     \* residuals in a generated sieve text
MaxLen == 3       \* residuals in a group
MaxGroups == 3    \* groups in a Sieve
MaxSieves == 3    \* Sieve objects alive in one run
MaxV == 12        \* membership is compared over 0..MaxV

\* ------------------------------------------------------------ small helpers

Min(a, b) == IF a <= b THEN a ELSE b

RECURSIVE Concat(_)
\* ''.join(parts) for a sequence of texts
Concat(parts) ==
    IF parts = <<>> THEN <<>> ELSE Head(parts) \o Concat(Tail(parts))

RECURSIVE Join(_, _)
\* sep.join(parts)
Join(sep, parts) ==
    IF Len(parts) = 0 THEN <<>>
    ELSE IF Len(parts) = 1 THEN parts[1]
    ELSE parts[1] \o sep \o Join(sep, Tail(parts))

\* c in s
Contains(s, c) == \E i \in 1..Len(s) : s[i] = c

RECURSIVE Split(_, _)
\* s.split(c): the text between the separators, empty pieces kept
Split(s, c) ==
    IF ~Contains(s, c) THEN <<s>>
    ELSE LET i == CHOOSE k \in 1..Len(s) :
                     s[k] = c /\ \A j \in 1..(k - 1) : s[j] # c
         IN  <<SubSeq(s, 1, i - 1)>> \o Split(SubSeq(s, i + 1, Len(s)), c)

Digits == <<"0", "1", "2", "3", "4", "5", "6", "7", "8", "9">>

IsDigit(c) == \E d \in 1..10 : Digits[d] = c

DigitVal(c) == (CHOOSE d \in 1..10 : Digits[d] = c) - 1

RECURSIVE NatToStr(_)
NatToStr(n) ==
    IF n < 10 THEN <<Digits[n + 1]>>
    ELSE NatToStr(n \div 10) \o <<Digits[(n % 10) + 1]>>

\* f'{n}' for an int n
IntToStr(n) == IF n < 0 THEN <<"-">> \o NatToStr(0 - n) ELSE NatToStr(n)

RECURSIVE DigitsToNat(_)
DigitsToNat(s) ==
    IF s = <<>> THEN 0
    ELSE 10 * DigitsToNat(SubSeq(s, 1, Len(s) - 1)) + DigitVal(s[Len(s)])

AllDigits(s) == s # <<>> /\ \A i \in 1..Len(s) : IsDigit(s[i])

\* int(s) accepts an optional sign followed by decimal digits
IntOk(s) ==
    IF s # <<>> /\ s[1] \in {"-", "+"} THEN AllDigits(Tail(s)) ELSE AllDigits(s)

IntVal(s) ==
    IF s[1] = "-" THEN 0 - DigitsToNat(Tail(s))
    ELSE IF s[1] = "+" THEN DigitsToNat(Tail(s))
    ELSE DigitsToNat(s)

\* ------------------------------------------------------- dynamic values

Tup(r) == [kind |-> "tuple", val |-> r]
Lst(xs) == [kind |-> "list", val |-> xs]
Raise(e) == [kind |-> "raise", val |-> e]

IsRaise(x) == x.kind = "raise"

\* the first exception raised while the elements are evaluated in order
FirstRaise(xs) ==
    xs[CHOOSE i \in 1..Len(xs) :
           IsRaise(xs[i]) /\ \A j \in 1..(i - 1) : ~IsRaise(xs[j])]

AnyRaise(xs) == \E i \in 1..Len(xs) : IsRaise(xs[i])

\* the list of the elements xs, unless evaluating one of them raised
ListOf(xs) == IF AnyRaise(xs) THEN FirstRaise(xs) ELSE Lst(xs)

\* --------------------------------------------------------------- parser

clean_sieve_str(res) == SelectSeq(res, LAMBDA c : c # " " /\ c # "\n")

parse_residual(res0) ==
    LET res1 == clean_sieve_str(res0) IN
    IF res1 = <<>> THEN Raise("IndexError")
    ELSE
      LET neg == res1[1] = "!"
          res == IF neg THEN Tail(res1) ELSE res1
          parts == Split(res, "@")
      IN  IF Contains(res, "@")
          THEN IF Len(parts) = 2 /\ IntOk(parts[1]) /\ IntOk(parts[2])
               THEN Tup(<<IntVal(parts[1]), IntVal(parts[2]), neg>>)
               ELSE Raise("ValueError")
          ELSE IF IntOk(res) THEN Tup(<<IntVal(res), 0, neg>>)
               ELSE Raise("ValueError")

\* the two branches of parse_sieve_str that do not recurse
parse_no_bar(res0) ==
    LET res == clean_sieve_str(res0) IN
    IF Contains(res, "&")
    THEN ListOf([i \in 1..Len(Split(res, "&")) |->
                    parse_residual(Split(res, "&")[i])])
    ELSE ListOf(<<ListOf(<<parse_residual(res)>>)>>)

parse_sieve_str(res0) ==
    LET res == clean_sieve_str(res0) IN
    IF Contains(res, "|")
    THEN ListOf([i \in 1..Len(Split(res, "|")) |->
                    parse_no_bar(Split(res, "|")[i])])
    ELSE parse_no_bar(res)

\* ------------------------------------------------------------- residuals

\* Python's floored remainder a % b (b # 0)
PyMod(a, b) == IF b > 0 THEN a % b ELSE 0 - ((0 - a) % (0 - b))

in_residual(v, res) ==
    LET mod == res[1]
        shift == res[2]
        neg == res[3]
    IN  IF mod = 1 \/ mod = 0 THEN ~neg
        ELSE LET truth == PyMod(v - shift, mod) = 0
             IN  IF neg THEN ~truth ELSE truth

\* norm_residual applied to a residual tuple
norm_residual(res) ==
    IF res[1] = 0 THEN Raise("ZeroDivisionError")
    ELSE Tup(<<res[1], PyMod(res[2], res[1]), res[3]>>)

Ret(v) == [kind |-> "return", val |-> v]

\* the len(group) == 2 branch of simplify_group
simplify_pair(g0, g1) ==
    LET m == g0[1] * g1[1]
        s0 == Min(g0[2], g1[2])
        Agree(s) == /\ in_residual(s, <<m, s, FALSE>>) = in_residual(s, g0)
                    /\ in_residual(s, g0) = in_residual(s, g1)
        \* the while loop stops at the first seek where the three agree, or
        \* where seek <= m fails
        seek == CHOOSE k \in 0..(m + 1) :
                    /\ Agree(s0 + k) \/ k > m
                    /\ \A j \in 0..(k - 1) : ~(Agree(s0 + j) \/ j > m)
    IN  IF seek = m THEN Raise("ValueError")
        ELSE Ret(<<<<m, s0 + seek, FALSE>>>>)

RECURSIVE simplify_group(_)
simplify_group(group) ==
    IF Len(group) = 1 THEN Ret(group)
    ELSE IF Len(group) = 2 THEN simplify_pair(group[1], group[2])
    ELSE IF Len(group) = 0 THEN Ret(group)
    ELSE LET first == simplify_pair(group[1], group[2])
         IN  IF IsRaise(first) THEN first
             ELSE simplify_group(first.val \o SubSeq(group, 3, Len(group)))

\* membership of v in a group (all residuals) and in a structured sieve
\* (some group); the evaluation the spec's section 4.2 defines on top of
\* in_residual
in_group(v, group) == \A j \in 1..Len(group) : in_residual(v, group[j])

in_sieve(v, groups) == \E i \in 1..Len(groups) : in_group(v, groups[i])

Members(groups) == {v \in 0..MaxV : in_sieve(v, groups)}

\* ------------------------------------------------- pure function calls

NoCall == [fn |-> "none", done |-> TRUE]

\* normalized residuals, as Sieve construction leaves them
NormResiduals ==
    {r \in (1..MaxMod) \X (0..(MaxMod - 1)) \X BOOLEAN : r[2] < r[1]}

SeqsUpTo(S, n) == UNION {[1..k -> S] : k \in 1..n}

\* inputs of simplify_group: groups of 1..MaxLen normalized residuals
InitSimplify ==
    /\ lists = <<>>
    /\ sieves = <<>>
    /\ last = [op |-> "none", ok |-> TRUE]
    /\ call \in {[fn |-> "simplify_group", group |-> g, ret |-> Ret(<<>>),
                  done |-> FALSE] : g \in SeqsUpTo(NormResiduals, MaxLen)}

CallSimplifyGroup ==
    /\ call.fn = "simplify_group"
    /\ ~call.done
    /\ call' = [call EXCEPT !.ret = simplify_group(call.group), !.done = TRUE]
    /\ UNCHANGED <<lists, sieves, last>>

NextSimplify == CallSimplifyGroup

SpecSimplify == InitSimplify /\ [][NextSimplify]_vars

\* A term of a sieve text of the grammar: ['!'] modulus ['@' shift]
Terms ==
    {[neg |-> n, m |-> m, s |-> s, at |-> a] :
        n \in BOOLEAN, m \in 2..MaxMod, s \in 0..MaxShift, a \in BOOLEAN}
        \ {[neg |-> n, m |-> m, s |-> s, at |-> FALSE] :
              n \in BOOLEAN, m \in 2..MaxMod, s \in 1..MaxShift}

TermText(t) ==
    (IF t.neg THEN <<"!">> ELSE <<>>) \o IntToStr(t.m)
        \o (IF t.at THEN <<"@">> \o IntToStr(t.s) ELSE <<>>)

TermResidual(t) == <<t.m, t.s, t.neg>>

SepText(sep, spaced) == IF spaced THEN <<" ", sep, " ">> ELSE <<sep>>

RECURSIVE SieveText(_, _, _)
\* the text of terms ts joined by the separators seps ("&" or "|")
SieveText(ts, seps, spaced) ==
    IF Len(ts) = 1 THEN TermText(ts[1])
    ELSE TermText(ts[1]) \o SepText(seps[1], spaced)
             \o SieveText(Tail(ts), Tail(seps), spaced)

RECURSIVE GrammarGroups(_, _)
\* the OR-groups the grammar gives that text: '|' binds looser than '&'
GrammarGroups(ts, seps) ==
    IF Len(ts) = 1 THEN <<<<TermResidual(ts[1])>>>>
    ELSE LET rest == GrammarGroups(Tail(ts), Tail(seps))
         IN  IF seps[1] = "|" THEN <<<<TermResidual(ts[1])>>>> \o rest
             ELSE <<<<TermResidual(ts[1])>>  \o rest[1]>> \o Tail(rest)

InitParse ==
    /\ lists = <<>>
    /\ sieves = <<>>
    /\ last = [op |-> "none", ok |-> TRUE]
    /\ \E k \in 1..MaxTerms :
         \E ts \in [1..k -> Terms], seps \in [1..(k - 1) -> {"&", "|"}],
            spaced \in BOOLEAN :
           call = [fn |-> "parse_sieve_str", text |-> SieveText(ts, seps, spaced),
                   groups |-> GrammarGroups(ts, seps),
                   ret |-> Ret(<<>>), done |-> FALSE]

CallParseSieveStr ==
    /\ call.fn = "parse_sieve_str"
    /\ ~call.done
    /\ call' = [call EXCEPT !.ret = parse_sieve_str(call.text), !.done = TRUE]
    /\ UNCHANGED <<lists, sieves, last>>

NextParse == CallParseSieveStr

SpecParse == InitParse /\ [][NextParse]_vars

\* ------------------------------------------------------ Sieve objects

ValidFmts == {"set", "unit", "bin", "delta"}

\* the class attribute Sieve._fmt, read while an object has not set its own
DefaultFmt == "set"

\* the fmt a constructor call without fmt argument passes (None)
NoFmt == ""

\* a setter that stores whatever tag it is given
fmt_setter_unchecked(old, new) == new

\* Sieve.fmt's setter: the value of _fmt after `self.fmt = new`
fmt_setter(old, new) == IF new \in ValidFmts THEN new ELSE old

\* the outcome of a loop over elements whose outcomes are rs: the first
\* exception, or the sequence of the values
Collect(rs) ==
    IF AnyRaise(rs) THEN FirstRaise(rs) ELSE Ret([j \in 1..Len(rs) |-> rs[j].val])

\* the normalisation loop of Sieve.__init__ over one group of residual tuples
norm_group(group) ==
    Collect([j \in 1..Len(group) |-> norm_residual(group[j])])

\* the same loop over one element of the parser's result, whatever it is
norm_node(g) ==
    IF g.kind = "tuple" THEN Raise("TypeError")   \* norm_residual(int)
    ELSE Collect([j \in 1..Len(g.val) |->
                     IF g.val[j].kind = "tuple" THEN norm_residual(g.val[j].val)
                     ELSE IF Len(g.val[j].val) < 2 THEN Raise("IndexError")
                     ELSE Raise("TypeError")])

\* the normalisation loop of Sieve.__init__ over the parser's result
norm_tree(tree) ==
    IF IsRaise(tree) THEN tree
    ELSE Collect([i \in 1..Len(tree.val) |-> norm_node(tree.val[i])])

\* Sieve(m) for a str m: the structured sieve built, or the exception
sieve_from_text(text) == norm_tree(parse_sieve_str(text))

\* Sieve(m, s, n) for an int m
sieve_from_triple(r) == Collect(<<norm_group(<<r>>)>>)

\* the structured sieve of Sieve object i: its groups' current contents
ValueIn(ls, sv, i) ==
    [k \in 1..Len(sv[i].residuals) |-> ls[sv[i].residuals[k]]]

Value(i) == ValueIn(lists, sieves, i)

ResidualText(r) ==
    (IF r[3] THEN <<"!">> ELSE <<>>) \o IntToStr(r[1]) \o <<"@">> \o IntToStr(r[2])

\* Sieve.__str__
Str(groups) ==
    Join(<<" ", "|", " ">>,
         [i \in 1..Len(groups) |->
             Join(<<" ", "&", " ">>,
                  [j \in 1..Len(groups[i]) |-> ResidualText(groups[i][j])])])

\* Sieve.stype of a structured sieve
stype(groups) ==
    IF Len(groups) > 1 THEN "complex"
    ELSE IF Len(groups) = 1 /\ Len(groups[1]) > 1 THEN "compound"
    ELSE "simple"

\* operands of the constructor and of | and &
\* (f: the fmt argument passed along, or the tag assigned to fmt)
OpSieve(i) == [kind |-> "sieve", id |-> i, r |-> <<>>, t |-> <<>>, f |-> ""]
OpTriple(r) == [kind |-> "triple", id |-> 0, r |-> r, t |-> <<>>, f |-> ""]
OpText(t) == [kind |-> "text", id |-> 0, r |-> <<>>, t |-> t, f |-> ""]
OpRepr(i, t) == [kind |-> "repr", id |-> i, r |-> <<>>, t |-> t, f |-> ""]
OpFmt(f) == [kind |-> "fmt", id |-> 0, r |-> <<>>, t |-> <<>>, f |-> f]
OpNone == [kind |-> "none", id |-> 0, r |-> <<>>, t |-> <<>>, f |-> ""]

OperandTriples ==
    {<<2, 0, FALSE>>, <<3, 1, FALSE>>, <<2, 3, TRUE>>, <<4, 2, FALSE>>,
     <<1, 5, FALSE>>, <<0, 1, FALSE>>}

OperandTexts ==
    { <<"3", "@", "4">>,
      <<"2", " ", "&", " ", "3", "@", "1">>,
      <<"2", "&", "3", "|", "3", "@", "1", "&", "!", "2">> }

\* the Sieve `other` is turned into by the first lines of __or__ / __and__
convert(o) ==
    IF o.kind = "text" THEN sieve_from_text(o.t)
    ELSE IF o.kind = "triple" THEN sieve_from_triple(o.r)
    ELSE Ret(Value(o.id))

\* a push that takes the operand's first residual whatever its stype
push_of_first(groups) ==
    IF stype(groups) = "complex" THEN Raise("UnboundLocalError")
    ELSE Ret(<<groups[1][1]>>)

\* the list `push` that __or__ and __and__ build from the converted operand;
\* for a complex operand neither branch binds it
push_of(groups) ==
    IF stype(groups) = "simple" THEN Ret(<<groups[1][1]>>)
    ELSE IF stype(groups) = "compound" THEN Ret(groups[1])
    ELSE Raise("UnboundLocalError")

\* Sieve(self): the copy shares the inner lists, and the normalisation loop
\* rewrites every residual of those lists in place
renormalized(ids) ==
    [l \in DOMAIN lists |->
        IF \E k \in 1..Len(ids) : ids[k] = l
        THEN [j \in 1..Len(lists[l]) |-> norm_residual(lists[l][j]).val]
        ELSE lists[l]]

Done(op, i, o, res) ==
    [op |-> op, self |-> i, other |-> o, ok |-> TRUE, err |-> "", res |-> res]

Raised(op, i, o, e) ==
    [op |-> op, self |-> i, other |-> o, ok |-> FALSE, err |-> e, res |-> 0]

NewSieve(ids, f) == [residuals |-> ids, fmt |-> f]

\* ids of n list objects allocated after the existing ones
Fresh(n) == [k \in 1..n |-> Len(lists) + k]

Init ==
    /\ lists = <<>>
    /\ sieves = <<>>
    /\ last = Done("none", 0, OpNone, 0)
    /\ call = NoCall

\* s = Sieve(text, fmt=f) or Sieve(m, s, n, fmt=f)
Construct(o, f) ==
    /\ last.ok
    /\ Len(sieves) < MaxSieves
    /\ o.kind \in {"text", "triple"}
    /\ \E v \in {convert(o)},
          fmt \in {IF f # NoFmt THEN fmt_setter(DefaultFmt, f) ELSE DefaultFmt} :
           IF IsRaise(v)
           THEN /\ last' = Raised("Sieve", 0, [o EXCEPT !.f = f], v.val)
                /\ UNCHANGED <<lists, sieves>>
           ELSE /\ lists' = lists \o v.val
                /\ sieves' = Append(sieves, NewSieve(Fresh(Len(v.val)), fmt))
                /\ last' = Done("Sieve", 0, [o EXCEPT !.f = f], Len(sieves) + 1)
    /\ UNCHANGED call

\* s = Sieve(str(sieves[i])): the round trip through the text form
Reparse(i) ==
    /\ last.ok
    /\ Len(sieves) < MaxSieves
    /\ i \in DOMAIN sieves
    /\ \E o \in {OpRepr(i, Str(Value(i)))} : \E v \in {sieve_from_text(o.t)} :
           IF IsRaise(v)
           THEN /\ last' = Raised("Sieve", 0, o, v.val)
                /\ UNCHANGED <<lists, sieves>>
           ELSE /\ lists' = lists \o v.val
                /\ sieves' = Append(sieves, NewSieve(Fresh(Len(v.val)), DefaultFmt))
                /\ last' = Done("Sieve", 0, o, Len(sieves) + 1)
    /\ UNCHANGED call

\* s = Sieve(sieves[i])
Copy(i) ==
    /\ last.ok
    /\ Len(sieves) < MaxSieves
    /\ i \in DOMAIN sieves
    /\ lists' = renormalized(sieves[i].residuals)
    /\ sieves' = Append(sieves, NewSieve(sieves[i].residuals, DefaultFmt))
    /\ last' = Done("Sieve", 0, OpSieve(i), Len(sieves) + 1)
    /\ UNCHANGED call

\* s = sieves[i] | o
Or(i, o) ==
    /\ last.ok
    /\ Len(sieves) < MaxSieves
    /\ i \in DOMAIN sieves
    /\ Len(sieves[i].residuals) < MaxGroups
    /\ \E v \in {convert(o)} :
         \E push \in {IF IsRaise(v) THEN v ELSE push_of(v.val)} :
           IF IsRaise(v)
           THEN /\ last' = Raised("or", i, o, v.val)
                /\ UNCHANGED <<lists, sieves>>
           ELSE IF IsRaise(push)
           THEN /\ last' = Raised("or", i, o, push.val)
                /\ lists' = renormalized(sieves[i].residuals)
                /\ UNCHANGED sieves
           ELSE /\ lists' = Append(renormalized(sieves[i].residuals), push.val)
                /\ sieves' = Append(sieves,
                       NewSieve(Append(sieves[i].residuals, Len(lists) + 1),
                                DefaultFmt))
                /\ last' = Done("or", i, o, Len(sieves) + 1)
    /\ UNCHANGED call

\* an index that selects the first group instead of the last
cur_group_first(ids) == 1

\* the index `-1 if self._cur_group == 'last' else self._cur_group`:
\* _cur_group is set to 'last' by __init__ and never assigned again
cur_group(ids) == Len(ids)

\* new._residuals[k] += push: the list object at k is extended in place
extend_in_place(ls, ids, k, push) ==
    [ls EXCEPT ![ids[k]] = ls[ids[k]] \o push]

\* s = sieves[i] & o
And(i, o) ==
    /\ last.ok
    /\ Len(sieves) < MaxSieves
    /\ i \in DOMAIN sieves
    /\ \E v \in {convert(o)}, ids \in {sieves[i].residuals} :
         \E push \in {IF IsRaise(v) THEN v ELSE push_of(v.val)} :
           IF IsRaise(v)
           THEN /\ last' = Raised("and", i, o, v.val)
                /\ UNCHANGED <<lists, sieves>>
           ELSE IF IsRaise(push)
           THEN /\ last' = Raised("and", i, o, push.val)
                /\ lists' = renormalized(ids)
                /\ UNCHANGED sieves
           ELSE /\ Len(lists[ids[cur_group(ids)]]) + Len(push.val) <= MaxLen
                /\ lists' = extend_in_place(renormalized(ids), ids,
                                            cur_group(ids), push.val)
                /\ sieves' = Append(sieves, NewSieve(ids, DefaultFmt))
                /\ last' = Done("and", i, o, Len(sieves) + 1)
    /\ UNCHANGED call

\* the fold `simple = simple | sieve` over the Sieves made from the
\* simplified groups
simplified_fold(made) ==
    IF IsRaise(made) THEN made
    ELSE Ret(made.val[1]
               \o [k \in 1..(Len(made.val) - 1) |-> push_of(made.val[k + 1]).val])

\* the Sieves Sieve(f'{x}@{y}') made from the simplified groups
simplified_made(simp) ==
    IF IsRaise(simp) THEN simp
    ELSE Collect([k \in 1..Len(simp.val) |->
                    sieve_from_text(IntToStr(simp.val[k][1][1]) \o <<"@">>
                                        \o IntToStr(simp.val[k][1][2]))])

\* the structured sieve Sieve.simplified returns for a Sieve of these groups
simplified_value(groups) ==
    simplified_fold(simplified_made(
        Collect([k \in 1..Len(groups) |-> simplify_group(groups[k])])))

\* s = sieves[i].simplified
Simplified(i) ==
    /\ last.ok
    /\ Len(sieves) < MaxSieves
    /\ i \in DOMAIN sieves
    /\ \E v \in {simplified_value(Value(i))} :
           IF IsRaise(v)
           THEN /\ last' = Raised("simplified", i, OpNone, v.val)
                /\ UNCHANGED <<lists, sieves>>
           ELSE /\ lists' = lists \o v.val
                /\ sieves' = Append(sieves, NewSieve(Fresh(Len(v.val)), DefaultFmt))
                /\ last' = Done("simplified", i, OpNone, Len(sieves) + 1)
    /\ UNCHANGED call

\* sieves[i].fmt = f
SetFmt(i, f) ==
    /\ last.ok
    /\ i \in DOMAIN sieves
    /\ sieves' = [sieves EXCEPT ![i].fmt = fmt_setter(@, f)]
    /\ last' = Done("fmt", i, OpFmt(f), i)
    /\ UNCHANGED <<lists, call>>

Operands ==
    {OpTriple(r) : r \in OperandTriples} \cup {OpText(t) : t \in OperandTexts}
        \cup {OpSieve(j) : j \in DOMAIN sieves}

Next ==
    \/ \E r \in OperandTriples : Construct(OpTriple(r), NoFmt)
    \/ \E t \in OperandTexts : Construct(OpText(t), NoFmt)
    \/ \E i \in DOMAIN sieves : Reparse(i)
    \/ \E i \in DOMAIN sieves : Copy(i)
    \/ \E i \in DOMAIN sieves : Simplified(i)
    \/ \E i \in DOMAIN sieves, o \in Operands : Or(i, o)
    \/ \E i \in DOMAIN sieves, o \in Operands : And(i, o)

Spec == Init /\ [][Next]_vars

\* tags passed as fmt: the four formats, no argument, and tags that are none
FmtArgs == ValidFmts \cup {NoFmt, "list", "SET"}

\* the residuals of the Sieves whose fmt is exercised
FmtTriples == {<<3, 1, FALSE>>, <<0, 1, FALSE>>}

NextFmt ==
    \/ \E r \in FmtTriples, f \in FmtArgs : Construct(OpTriple(r), f)
    \/ \E i \in DOMAIN sieves, f \in FmtArgs : SetFmt(i, f)

SpecFmt == Init /\ [][NextFmt]_vars

\* ================================================================ claims

\* the integers 0..MaxV a structured sieve holds are compared for
\* extensional equality
SameMembers(g1, g2) == Members(g1) = Members(g2)

Satisfiable(group) == \E v \in 0..MaxV : in_group(v, group)

\* the last operation was sieves[last.self] <op> operand, and its operand
\* became a simple or compound Sieve
BinaryOn(l, op) ==
    /\ l.op = op
    /\ l.other.kind \in {"sieve", "triple", "text"}

\* C1: evaluating A & B or A | B leaves the structured sieve of every
\* Sieve that existed before (A, B and all others) unchanged.
C1_OperatorsLeaveSievesUnchanged ==
    [][(last'.op \in {"or", "and"} /\ last'.ok)
          => \A i \in DOMAIN sieves : Value(i)' = Value(i)]_vars

\* a list of non-empty lists of residual tuples, and the groups it holds
IsGroupList(x) ==
    /\ x.kind = "list"
    /\ \A i \in 1..Len(x.val) :
         /\ x.val[i].kind = "list"
         /\ Len(x.val[i].val) >= 1
         /\ \A j \in 1..Len(x.val[i].val) : x.val[i].val[j].kind = "tuple"

AsGroups(x) ==
    [i \in 1..Len(x.val) |-> [j \in 1..Len(x.val[i].val) |-> x.val[i].val[j].val]]

\* C2: parse_sieve_str of a text of the grammar returns the list of the
\* text's OR-groups, each the list of its residual triples in order, and the
\* Sieve built from the text holds exactly the members of those groups.
C2_ParseReturnsGroups ==
    (call.fn = "parse_sieve_str" /\ call.done)
        => /\ IsGroupList(call.ret)
           /\ AsGroups(call.ret) = call.groups
           /\ ~IsRaise(sieve_from_text(call.text))
           /\ SameMembers(sieve_from_text(call.text).val, call.groups)

\* C3: simplify_group of a two-residual group that no integer satisfies
\* raises; it returns no residual.
C3_UnsatisfiablePairRaises ==
    (call.fn = "simplify_group" /\ call.done /\ Len(call.group) = 2
        /\ ~Satisfiable(call.group))
        => IsRaise(call.ret)

\* C4: when simplify_group of two residuals with moduli >= 2 returns a
\* residual r, r holds exactly the integers both residuals hold.
C4_PairEquivalent ==
    (call.fn = "simplify_group" /\ call.done /\ Len(call.group) = 2
        /\ call.group[1][1] >= 2 /\ call.group[2][1] >= 2
        /\ ~IsRaise(call.ret))
        => /\ Len(call.ret.val) = 1
           /\ \A v \in 0..MaxV :
                in_residual(v, call.ret.val[1]) = in_group(v, call.group)

\* C5: for a Sieve s whose groups are each satisfiable, s.simplified has as
\* many groups as s, each of one residual, and holds the same integers as s.
C5_SimplifiedEquivalent ==
    (last.op = "simplified" /\ \A k \in 1..Len(Value(last.self)) :
                                  Satisfiable(Value(last.self)[k]))
        => /\ last.ok
           /\ Len(Value(last.res)) = Len(Value(last.self))
           /\ \A k \in 1..Len(Value(last.res)) : Len(Value(last.res)[k]) = 1
           /\ SameMembers(Value(last.res), Value(last.self))

\* C6: building a Sieve from str(s) succeeds and the result holds the same
\* integers as s.
C6_RoundTrip ==
    (last.op = "Sieve" /\ last.other.kind = "repr")
        => /\ last.ok
           /\ SameMembers(Value(last.res), Value(last.other.id))

C9_ZeroModulusConstructs ==
    (last.op = "Sieve" /\ last.other.kind = "triple" /\ last.other.r[1] = 0)
        => /\ last.ok
           /\ Value(last.res) = <<<<last.other.r>>>>

\* C10: a Sieve's fmt is always one of set, unit, bin, delta; assigning one
\* of the four makes it the fmt, assigning any other tag raises nothing and
\* leaves the fmt as it was.
C10_FmtStaysValid ==
    /\ [](\A i \in DOMAIN sieves : sieves[i].fmt \in {"set", "unit", "bin", "delta"})
    /\ [][last'.op = "fmt"
            => /\ last'.ok
               /\ sieves'[last'.self].fmt
                    = IF last'.other.f \in {"set", "unit", "bin", "delta"}
                      THEN last'.other.f
                      ELSE sieves[last'.self].fmt]_vars

C10_InvalidTagAssigned ==
    /\ last.op = "fmt" /\ last.ok
    /\ last.other.f \notin {"set", "unit", "bin", "delta"}
    /\ sieves[last.self].fmt = "bin"

====
